---- MODULE Spec2Model ----
(***************************************************************************)
(* Model of app.py, the AI product recommender: the credential validator,  *)
(* the session state handled by the save / clear buttons, the call to the  *)
(* text-generation service and the expansion of its reply over the product *)
(* catalog.                                                                *)
(*                                                                         *)
(* Conventions:                                                            *)
(*  - Python strings are TLA+ strings (Len, SubSeq and \o act on them).    *)
(*  - A confidence is a number of hundredths (0.9 is 90, 0.95 is 95).      *)
(*  - The Thai product descriptions are replaced by ASCII stand-ins, one   *)
(*    distinct string per product.                                         *)
(*  - A Python dict is a function whose DOMAIN is its set of keys.         *)
(*  - An optional value is a record [none |-> TRUE] or                     *)
(*    [none |-> FALSE, val |-> v].                                         *)
(***************************************************************************)
EXTENDS Integers, Sequences, FiniteSets, TLC

VARIABLES
    session_state,  \* st.session_state: dict over "openai_api_key", "client"
    nextId,         \* identity of the next OpenAI object to be constructed
    action,         \* the button handled by the last script run
    api_key,        \* text of the API key input in the last run
    interest,       \* text of the interest input in the last run
    sent,           \* requests sent to the external service in the last run
    verify,         \* outcome of the connection test of the last run
    created,        \* the OpenAI object constructed in the last run
    reply,          \* outcome of the generation request of the last run
    products,       \* value returned by get_recommendations_with_products
    shown,          \* message or cards rendered by the last run
    cleared,        \* a clear happened and no successful save since
    validation,     \* one call of validate_api_key: argument and result
    expansion       \* one run of the mapper: recommendations and result

vars == <<session_state, nextId, action, api_key, interest, sent, verify,
          created, reply, products, shown, cleared, validation, expansion>>

----------------------------------------------------------------------------
(* Optional values, Python's None. *)

None == [none |-> TRUE]

Some(v) == [none |-> FALSE, val |-> v]

IsNone(o) == o.none

----------------------------------------------------------------------------
(* Bounds of the model. *)

MaxPad == 18

MaxClients == 3

MaxRecs == 2

MaxExpandRecs == 3

----------------------------------------------------------------------------
(* The product catalog. *)

PRODUCT_CATALOG ==
    [c \in {"Sports & Fitness", "Photography", "Cooking"} |->
       CASE c = "Sports & Fitness" ->
              << [id |-> "S001", name |-> "Nike Air Zoom Pegasus", price |-> 4500,
                  description |-> "desc S001",
                  image |-> "https://picsum.photos/300/200?random=1"],
                 [id |-> "S002", name |-> "Fitbit Charge 5", price |-> 6900,
                  description |-> "desc S002",
                  image |-> "https://picsum.photos/300/200?random=2"],
                 [id |-> "S003", name |-> "Yoga Mat Premium", price |-> 1200,
                  description |-> "desc S003",
                  image |-> "https://picsum.photos/300/200?random=3"] >>
         [] c = "Photography" ->
              << [id |-> "P001", name |-> "Sony A7 III", price |-> 59900,
                  description |-> "desc P001",
                  image |-> "https://picsum.photos/300/200?random=4"],
                 [id |-> "P002", name |-> "DJI Mini 3 Pro", price |-> 29900,
                  description |-> "desc P002",
                  image |-> "https://picsum.photos/300/200?random=5"],
                 [id |-> "P003", name |-> "Peak Design Backpack", price |-> 8900,
                  description |-> "desc P003",
                  image |-> "https://picsum.photos/300/200?random=6"] >>
         [] c = "Cooking" ->
              << [id |-> "C001", name |-> "Instant Pot Duo", price |-> 3900,
                  description |-> "desc C001",
                  image |-> "https://picsum.photos/300/200?random=7"],
                 [id |-> "C002", name |-> "Vitamix Blender", price |-> 15900,
                  description |-> "desc C002",
                  image |-> "https://picsum.photos/300/200?random=8"],
                 [id |-> "C003", name |-> "Kitchen Scale Digital", price |-> 890,
                  description |-> "desc C003",
                  image |-> "https://picsum.photos/300/200?random=9"] >>]

----------------------------------------------------------------------------
(* The credential validator. *)

\* str.startswith
startswith(s, prefix) ==
    /\ Len(s) >= Len(prefix)
    /\ SubSeq(s, 1, Len(prefix)) = prefix

\* validate_api_key with the length test off by one
validate_api_key_le(key) ==
    IF ~startswith(key, "sk-") THEN FALSE
    ELSE IF Len(key) <= 20 THEN FALSE
    ELSE TRUE

validate_api_key(key) ==
    IF ~startswith(key, "sk-") THEN FALSE
    ELSE IF Len(key) < 20 THEN FALSE
    ELSE TRUE

----------------------------------------------------------------------------
(* The recommendation mapper: lines 155-172 of                             *)
(* get_recommendations_with_products.                                      *)

\* ProductDisplay(...) built for recommendation rec and catalog entry p
ProductDisplay(rec, p) ==
    [category   |-> rec["category"],
     product    |-> p.name,
     price      |-> p.price,
     reason     |-> rec["reason"] \o " - " \o p.description,
     confidence |-> rec["confidence"],
     image      |-> p.image]

\* the inner loop taking only the first product of the category
ItemsOf_first(rec) ==
    IF rec["category"] \in DOMAIN PRODUCT_CATALOG
    THEN << ProductDisplay(rec, PRODUCT_CATALOG[rec["category"]][1]) >>
    ELSE << >>

\* the body of the loop over the recommendations, for one recommendation
ItemsOf(rec) ==
    IF rec["category"] \in DOMAIN PRODUCT_CATALOG
    THEN LET entries == PRODUCT_CATALOG[rec["category"]]
         IN  [i \in 1..Len(entries) |-> ProductDisplay(rec, entries[i])]
    ELSE << >>

\* a dict access of the loop body raises KeyError for this record
RecRaises(rec) ==
    \/ "category" \notin DOMAIN rec
    \/ /\ rec["category"] \in DOMAIN PRODUCT_CATALOG
       /\ \/ "reason" \notin DOMAIN rec
          \/ "confidence" \notin DOMAIN rec

\* the loop over the recommendations; None when an access raises
RECURSIVE ExpandLoop(_, _, _)
ExpandLoop(recs, i, acc) ==
    IF i > Len(recs) THEN Some(acc)
    ELSE IF RecRaises(recs[i]) THEN None
    ELSE ExpandLoop(recs, i + 1, acc \o ItemsOf(recs[i]))

\* place x in a list sorted by confidence descending, after its equals
RECURSIVE InsertDesc(_, _)
InsertDesc(sorted, x) ==
    IF sorted = << >> THEN << x >>
    ELSE IF Head(sorted).confidence >= x.confidence
         THEN << Head(sorted) >> \o InsertDesc(Tail(sorted), x)
         ELSE << x >> \o sorted

\* place x in a list sorted by confidence ascending, after its equals
RECURSIVE InsertAsc(_, _)
InsertAsc(sorted, x) ==
    IF sorted = << >> THEN << x >>
    ELSE IF Head(sorted).confidence <= x.confidence
         THEN << Head(sorted) >> \o InsertAsc(Tail(sorted), x)
         ELSE << x >> \o sorted

RECURSIVE SortAscFrom(_, _, _)
SortAscFrom(list, i, acc) ==
    IF i > Len(list) THEN acc
    ELSE SortAscFrom(list, i + 1, InsertAsc(acc, list[i]))

RECURSIVE SortDescFrom(_, _, _)
SortDescFrom(list, i, acc) ==
    IF i > Len(list) THEN acc
    ELSE SortDescFrom(list, i + 1, InsertDesc(acc, list[i]))

\* list.sort(key=confidence) without reverse=True
sort_by_confidence_asc(list) == SortAscFrom(list, 1, << >>)

\* list.sort(key=lambda x: x.confidence, reverse=True): stable, descending
sort_by_confidence(list) == SortDescFrom(list, 1, << >>)

\* the mapper over well-formed recommendations: expansion, then the sort
expand(recs) ==
    LET all == ExpandLoop(recs, 1, << >>)
    IN  IF IsNone(all) THEN None ELSE Some(sort_by_confidence(all.val))

----------------------------------------------------------------------------
(* The recommendation client.                                              *)

\* json.loads of the reply content; None when it raises
json_loads(outcome) ==
    IF outcome.kind = "json" THEN Some(outcome.value) ELSE None

\* get_recommendations_with_products, given the outcome of the request:
\* a transport error, a reply that is not JSON, or a JSON object
get_recommendations_with_products(outcome) ==
    IF outcome.kind = "error" THEN None
    ELSE LET result == json_loads(outcome)
         IN  IF IsNone(result) THEN None
             ELSE IF "recommendations" \notin DOMAIN result.val THEN None
             ELSE expand(result.val["recommendations"])

----------------------------------------------------------------------------
(* st.session_state.                                                       *)

EmptyDict == [k \in {} |-> ""]

dict_get(d, k, default) == IF k \in DOMAIN d THEN d[k] ELSE default

dict_set(d, k, v) == [x \in (DOMAIN d) \cup {k} |-> IF x = k THEN v ELSE d[x]]

dict_pop(d, k) == [x \in (DOMAIN d) \ {k} |-> d[x]]

----------------------------------------------------------------------------
(* init_openai_client.  s is the session state, id the identity of the     *)
(* OpenAI object it constructs, outcome what the connection test does:     *)
(* "ok" (a truthy response), "falsy" (a falsy response) or "error" (the    *)
(* call raises).                                                           *)

\* init_openai_client repeating the connection test once after an error
init_openai_client_retry(s, id, outcome) ==
    LET key == dict_get(s, "openai_api_key", "")
        client == [api_key |-> key, id |-> id]
    IN  IF key = ""
        THEN [ret |-> None, sent |-> << >>, created |-> None,
              verify |-> "none", shown |-> "none"]
        ELSE IF outcome = "ok"
        THEN [ret |-> Some(client), sent |-> << "verify" >>,
              created |-> Some(client), verify |-> "ok", shown |-> "none"]
        ELSE IF outcome = "falsy"
        THEN [ret |-> None, sent |-> << "verify" >>,
              created |-> Some(client), verify |-> "falsy", shown |-> "none"]
        ELSE [ret |-> None, sent |-> << "verify", "verify" >>,
              created |-> Some(client), verify |-> "error",
              shown |-> "sidebar.error:exception"]

\* init_openai_client returning the client whatever the connection test did
init_openai_client_unchecked(s, id, outcome) ==
    LET key == dict_get(s, "openai_api_key", "")
        client == [api_key |-> key, id |-> id]
    IN  IF key = ""
        THEN [ret |-> None, sent |-> << >>, created |-> None,
              verify |-> "none", shown |-> "none"]
        ELSE [ret |-> Some(client), sent |-> << "verify" >>,
              created |-> Some(client), verify |-> outcome,
              shown |-> IF outcome = "error" THEN "sidebar.error:exception"
                        ELSE "none"]

init_openai_client(s, id, outcome) ==
    LET key == dict_get(s, "openai_api_key", "")
        client == [api_key |-> key, id |-> id]
    IN  IF key = ""
        THEN [ret |-> None, sent |-> << >>, created |-> None,
              verify |-> "none", shown |-> "none"]
        ELSE IF outcome = "ok"
        THEN [ret |-> Some(client), sent |-> << "verify" >>,
              created |-> Some(client), verify |-> "ok", shown |-> "none"]
        ELSE IF outcome = "falsy"
        THEN [ret |-> None, sent |-> << "verify" >>,
              created |-> Some(client), verify |-> "falsy", shown |-> "none"]
        ELSE [ret |-> None, sent |-> << "verify" >>,
              created |-> Some(client), verify |-> "error",
              shown |-> "sidebar.error:exception"]

----------------------------------------------------------------------------
(* The button handlers of main.                                            *)

\* the save handler storing the key before it checks it
SaveButton_storeFirst(s, key, id, outcome) ==
    LET s1 == dict_set(s, "openai_api_key", key)
        r  == init_openai_client(s1, id, outcome)
    IN  IF key = ""
        THEN [session_state |-> s1, sent |-> << >>, verify |-> "none",
              created |-> None, shown |-> "sidebar.warning"]
        ELSE IF ~validate_api_key(key)
        THEN [session_state |-> s1, sent |-> << >>, verify |-> "none",
              created |-> None, shown |-> "sidebar.error:format"]
        ELSE IF ~IsNone(r.ret)
        THEN [session_state |-> dict_set(s1, "client", r.ret.val),
              sent |-> r.sent, verify |-> r.verify, created |-> r.created,
              shown |-> "sidebar.success"]
        ELSE [session_state |-> s1,
              sent |-> r.sent, verify |-> r.verify, created |-> r.created,
              shown |-> r.shown]

\* the handler of the save button, lines 275-289
SaveButton(s, key, id, outcome) ==
    IF key = ""
    THEN [session_state |-> s, sent |-> << >>, verify |-> "none",
          created |-> None, shown |-> "sidebar.warning"]
    ELSE IF ~validate_api_key(key)
    THEN [session_state |-> s, sent |-> << >>, verify |-> "none",
          created |-> None, shown |-> "sidebar.error:format"]
    ELSE LET s1 == dict_set(s, "openai_api_key", key)
             r  == init_openai_client(s1, id, outcome)
         IN  IF ~IsNone(r.ret)
             THEN [session_state |-> dict_set(s1, "client", r.ret.val),
                   sent |-> r.sent, verify |-> r.verify,
                   created |-> r.created, shown |-> "sidebar.success"]
             ELSE [session_state |-> s1,
                   sent |-> r.sent, verify |-> r.verify,
                   created |-> r.created, shown |-> r.shown]

\* the clear handler forgetting to drop the client
ClearButton_keyOnly(s) == dict_pop(s, "openai_api_key")

\* the handler of the clear button, lines 292-296
ClearButton(s) == dict_pop(dict_pop(s, "openai_api_key"), "client")

\* the handler of the recommend button, lines 359-379
RecommendButton(text, outcome) ==
    IF text # ""
    THEN LET ps == get_recommendations_with_products(outcome)
         IN  [sent |-> << "generate" >>, reply |-> Some(outcome),
              products |-> ps,
              shown |-> IF ~IsNone(ps) /\ ps.val # << >>
                        THEN "cards" ELSE "st.error"]
    ELSE [sent |-> << >>, reply |-> None, products |-> None,
          shown |-> "st.warning"]

----------------------------------------------------------------------------
(* Inputs.                                                                 *)

RECURSIVE Pad(_)
Pad(n) == IF n = 0 THEN "" ELSE "a" \o Pad(n - 1)

SeqUpTo(S, n) == UNION {[1..m -> S] : m \in 0..n}

\* texts typed in the API key input
KeyInputs ==
    {"", "sk-", "sk-shortkey", "aaaaaaaaaaaaaaaaaaaaaaaa",
     "sk-abcdefghijklmnopqrst", "sk-zyxwvutsrqponmlkjihg"}

\* what the connection test of init_openai_client can do
VerifyOutcomes == {"ok", "falsy", "error"}

\* texts typed in the interest input
InterestInputs == {"", "I like cooking"}

\* a recommendation record of a reply, with the keys D only
MkRec(D, c, r, f) ==
    [k \in D |-> CASE k = "category"   -> c
                   [] k = "reason"     -> r
                   [] k = "confidence" -> f]

\* records of a reply: complete ones, of a catalog category and of an
\* absent one, and records with one of the three keys missing
ReplyRecords ==
    {MkRec({"category", "reason", "confidence"}, "Cooking", "r1", 90),
     MkRec({"category", "reason", "confidence"}, "Gardening", "r1", 95),
     MkRec({"reason", "confidence"}, "Cooking", "r1", 90),
     MkRec({"category", "confidence"}, "Cooking", "r1", 90),
     MkRec({"category", "reason"}, "Cooking", "r1", 90),
     MkRec({"category"}, "Gardening", "r1", 90)}

\* what the generation request can do: raise, answer text that is not
\* JSON, answer an object without "recommendations", answer a list
GenOutcomes ==
    {[kind |-> "error"], [kind |-> "text"],
     [kind |-> "json", value |-> [items |-> << >>]]}
    \cup {[kind |-> "json", value |-> [recommendations |-> rs]] :
             rs \in SeqUpTo(ReplyRecords, MaxRecs)}

\* arguments of validate_api_key
ValidateKeys ==
    {"sk-abcdefghijklmnopqrst"}
    \cup {pre \o Pad(n) :
             pre \in {"", "s", "sk", "sk-", "pk-", "SK-", "xsk-", "-sk"},
             n \in 0..MaxPad}

\* well-formed recommendations given to the mapper
ExpandRecords ==
    {MkRec({"category", "reason", "confidence"}, c, r, f) :
        c \in {"Cooking", "Sports & Fitness", "Gardening"},
        r \in {"r1", "r2"}, f \in {90, 95}}

----------------------------------------------------------------------------
(* The session: script runs of main, one per button press.                 *)

Init ==
    /\ session_state = EmptyDict
    /\ nextId = 1
    /\ action = "none"
    /\ api_key = ""
    /\ interest = ""
    /\ sent = << >>
    /\ verify = "none"
    /\ created = None
    /\ reply = None
    /\ products = None
    /\ shown = "none"
    /\ cleared = FALSE
    /\ validation = [api_key |-> "", called |-> FALSE, ret |-> FALSE]
    /\ expansion = [recs |-> << >>, called |-> FALSE, items |-> None]

\* a run in which the save button is pressed
Save ==
    \E key \in KeyInputs, outcome \in VerifyOutcomes :
       LET r == SaveButton(session_state, key, nextId, outcome)
       IN  /\ (~IsNone(r.created)) => nextId <= MaxClients
           /\ session_state' = r.session_state
           /\ nextId' = IF IsNone(r.created) THEN nextId ELSE nextId + 1
           /\ action' = "save"
           /\ api_key' = key
           /\ interest' = ""
           /\ sent' = r.sent
           /\ verify' = r.verify
           /\ created' = r.created
           /\ reply' = None
           /\ products' = None
           /\ shown' = r.shown
           /\ cleared' = IF r.shown = "sidebar.success" THEN FALSE ELSE cleared
           /\ UNCHANGED <<validation, expansion>>

\* a run in which the clear button is pressed
Clear ==
    /\ session_state' = ClearButton(session_state)
    /\ action' = "clear"
    /\ api_key' = ""
    /\ interest' = ""
    /\ sent' = << >>
    /\ verify' = "none"
    /\ created' = None
    /\ reply' = None
    /\ products' = None
    /\ shown' = "none"
    /\ cleared' = TRUE
    /\ UNCHANGED <<nextId, validation, expansion>>

\* a run in which the recommend button is pressed; the button is rendered
\* only past the st.stop() of lines 320-334
Recommend ==
    /\ "client" \in DOMAIN session_state
    /\ \E text \in InterestInputs, outcome \in GenOutcomes :
          LET r == RecommendButton(text, outcome)
          IN  /\ action' = "recommend"
              /\ api_key' = ""
              /\ interest' = text
              /\ sent' = r.sent
              /\ verify' = "none"
              /\ created' = None
              /\ reply' = r.reply
              /\ products' = r.products
              /\ shown' = r.shown
              /\ UNCHANGED <<session_state, nextId, cleared, validation,
                             expansion>>

Next == Save \/ Clear \/ Recommend

Spec == Init /\ [][Next]_vars

----------------------------------------------------------------------------
(* validate_api_key applied to one argument.                               *)

InitValidate ==
    /\ session_state = EmptyDict
    /\ nextId = 1
    /\ action = "none"
    /\ api_key = ""
    /\ interest = ""
    /\ sent = << >>
    /\ verify = "none"
    /\ created = None
    /\ reply = None
    /\ products = None
    /\ shown = "none"
    /\ cleared = FALSE
    /\ validation \in {[api_key |-> k, called |-> FALSE, ret |-> FALSE] :
                          k \in ValidateKeys}
    /\ expansion = [recs |-> << >>, called |-> FALSE, items |-> None]

Validate ==
    /\ ~validation.called
    /\ validation' = [api_key |-> validation.api_key, called |-> TRUE,
                      ret |-> validate_api_key(validation.api_key)]
    /\ UNCHANGED <<session_state, nextId, action, api_key, interest, sent,
                   verify, created, reply, products, shown, cleared,
                   expansion>>

NextValidate == Validate

SpecValidate == InitValidate /\ [][NextValidate]_vars

----------------------------------------------------------------------------
(* The mapper applied to one list of recommendations.                      *)

InitExpand ==
    /\ session_state = EmptyDict
    /\ nextId = 1
    /\ action = "none"
    /\ api_key = ""
    /\ interest = ""
    /\ sent = << >>
    /\ verify = "none"
    /\ created = None
    /\ reply = None
    /\ products = None
    /\ shown = "none"
    /\ cleared = FALSE
    /\ validation = [api_key |-> "", called |-> FALSE, ret |-> FALSE]
    /\ expansion \in {[recs |-> rs, called |-> FALSE, items |-> None] :
                         rs \in SeqUpTo(ExpandRecords, MaxExpandRecs)}

Expand ==
    /\ ~expansion.called
    /\ expansion' = [recs |-> expansion.recs, called |-> TRUE,
                     items |-> expand(expansion.recs)]
    /\ UNCHANGED <<session_state, nextId, action, api_key, interest, sent,
                   verify, created, reply, products, shown, cleared,
                   validation>>

NextExpand == Expand

SpecExpand == InitExpand /\ [][NextExpand]_vars

----------------------------------------------------------------------------
(* Properties.                                                             *)

Range(f) == {f[i] : i \in DOMAIN f}

RequiredFields == {"category", "reason", "confidence"}

\* the last run pressed recommend and the generation request was sent
Requested == action = "recommend" /\ sent = << "generate" >>

\* what the recommend handler renders when the request fails
FailureShown == RecommendButton("x", [kind |-> "error"]).shown

\* C1: when the reply is valid but no recommendation names a catalog
\* category, the run ends in a successful empty list and what the user
\* sees differs from what the Failure path shows.
C1_EmptyResultDistinct ==
    (Requested /\ ~IsNone(products) /\ products.val = << >>)
        => shown # FailureShown

\* the reply is not JSON, lacks "recommendations", or one of its records
\* lacks a required field
Malformed(outcome) ==
    \/ outcome.kind = "text"
    \/ /\ outcome.kind = "json"
       /\ \/ "recommendations" \notin DOMAIN outcome.value
          \/ \E i \in DOMAIN outcome.value["recommendations"] :
                ~(RequiredFields \subseteq
                     DOMAIN outcome.value["recommendations"][i])

\* C2: a reply that is not JSON, lacks the recommendations key, or holds a
\* record lacking category, reason or confidence yields Failure (None).
C2_MalformedIsFailure ==
    (Requested /\ Malformed(reply.val)) => IsNone(products)

\* the submitted credential is empty or fails the format check
BadFormat(key) ==
    key = "" \/ ~startswith(key, "sk-") \/ Len(key) < 20

\* C3: a save of an empty or ill-formed credential sends no request and
\* leaves the stored credential and client as they were.
C3_BadFormatNoCall ==
    [][(action' = "save" /\ BadFormat(api_key'))
          => (sent' = << >> /\ session_state' = session_state)]_vars

\* an ill-formed credential was submitted while the session held a client
C3_Witness ==
    /\ action = "save"
    /\ api_key # ""
    /\ BadFormat(api_key)
    /\ "client" \in DOMAIN session_state
    /\ sent = << >>

\* the session's client entry is written by this step
ClientWritten ==
    /\ "client" \in DOMAIN session_state'
    /\ \/ "client" \notin DOMAIN session_state
       \/ session_state'["client"] # session_state["client"]

\* C4: when the connection test fails, the client constructed in that
\* attempt is not stored; the client entry is written only after a
\* connection test that succeeded.
C4_FailedInitNotStored ==
    [][/\ (action' = "save" /\ ~IsNone(created') /\ verify' # "ok")
            => ~(/\ "client" \in DOMAIN session_state'
                 /\ session_state'["client"] = created'.val)
       /\ ClientWritten => (action' = "save" /\ verify' = "ok")]_vars

\* a connection test failed and the session holds no client
C4_Witness ==
    /\ action = "save"
    /\ verify \in {"falsy", "error"}
    /\ ~IsNone(created)
    /\ "openai_api_key" \in DOMAIN session_state
    /\ "client" \notin DOMAIN session_state

\* C5: validate returns false without the "sk-" prefix, false below 20
\* characters, true with the prefix and at least 20 characters; it sends
\* nothing and leaves the session alone.
C5_ValidateRule ==
    validation.called =>
       LET k == validation.api_key
       IN  /\ ~startswith(k, "sk-") => validation.ret = FALSE
           /\ Len(k) < 20 => validation.ret = FALSE
           /\ (startswith(k, "sk-") /\ Len(k) >= 20) => validation.ret = TRUE
           /\ sent = << >>
           /\ DOMAIN session_state = {}

\* a key of exactly 20 characters with the prefix was accepted
C5_Witness ==
    /\ validation.called
    /\ validation.ret = TRUE
    /\ Len(validation.api_key) = 20

\* number of positions of seq whose element satisfies Test
CountWhere(seq, Test(_)) == Cardinality({k \in DOMAIN seq : Test(seq[k])})

\* C6: the mapper yields one item per pair (recommendation of a catalog
\* category, entry of the category): three per such recommendation, none
\* for an absent category, twice for a category recommended twice, each
\* with the confidence of its recommendation.
C6_OneItemPerPair ==
    expansion.called =>
       LET recs  == expansion.recs
           items == expansion.items
           Match == {i \in DOMAIN recs :
                        recs[i]["category"] \in DOMAIN PRODUCT_CATALOG}
       IN  /\ ~IsNone(items)
           /\ Len(items.val) = 3 * Cardinality(Match)
           /\ \A i \in Match : \A j \in 1..3 :
                 LET e == PRODUCT_CATALOG[recs[i]["category"]][j]
                     Is(x) == /\ x.category = recs[i]["category"]
                              /\ x.product = e.name
                              /\ x.price = e.price
                              /\ x.image = e.image
                              /\ x.reason = recs[i]["reason"] \o " - "
                                              \o e.description
                              /\ x.confidence = recs[i]["confidence"]
                     Same(r) == r = recs[i]
                 IN  CountWhere(items.val, Is) = CountWhere(recs, Same)

\* a category recommended twice next to an absent category
C6_Witness ==
    /\ expansion.called
    /\ Len(expansion.recs) = 3
    /\ expansion.recs[1]["category"] = "Cooking"
    /\ expansion.recs[2]["category"] = "Gardening"
    /\ expansion.recs[3]["category"] = "Cooking"
    /\ Len(expansion.items.val) = 6

\* C7: the list of the mapper is ordered by confidence descending, and
\* items of equal confidence keep the order in which expansion produced
\* them.
C7_SortedStable ==
    expansion.called =>
       LET items == expansion.items.val
           raw   == ExpandLoop(expansion.recs, 1, << >>).val
       IN  /\ \A i, j \in DOMAIN items :
                 i < j => items[i].confidence >= items[j].confidence
           /\ \A c \in {items[k].confidence : k \in DOMAIN items}
                    \cup {raw[k].confidence : k \in DOMAIN raw} :
                 LET Is(x) == x.confidence = c
                 IN  SelectSeq(items, Is) = SelectSeq(raw, Is)

\* a lower confidence recommended before a higher one, and a tie between
\* two categories
C7_Witness ==
    /\ expansion.called
    /\ Len(expansion.recs) = 3
    /\ expansion.recs[1]["category"] = "Cooking"
    /\ expansion.recs[1]["confidence"] = 90
    /\ expansion.recs[2]["category"] = "Cooking"
    /\ expansion.recs[2]["confidence"] = 95
    /\ expansion.recs[3]["category"] = "Sports & Fitness"
    /\ expansion.recs[3]["confidence"] = 90
    /\ Len(expansion.items.val) = 9
    /\ expansion.items.val[1].confidence = 95
    /\ expansion.items.val[4].category = "Cooking"
    /\ expansion.items.val[7].category = "Sports & Fitness"

\* C8: no request is repeated: a save run sends at most one verification
\* request, a recommend run at most one generation request, whether it
\* succeeds or fails, and a run of no button sends none.
C8_NoRetry ==
    /\ Len(sent) <= 1
    /\ action = "save" => sent \in {<< >>, << "verify" >>}
    /\ action = "recommend" => sent \in {<< >>, << "generate" >>}
    /\ action \in {"none", "clear"} => sent = << >>

\* a connection test that raised was sent once
C8_Witness ==
    /\ action = "save"
    /\ verify = "error"
    /\ sent = << "verify" >>

\* C9: clear removes the credential and the client, a generation request
\* is sent only while the session holds a client, and none is sent between
\* a clear and the next successful save.
C9_NoRequestAfterClear ==
    [][/\ action' = "clear" => DOMAIN session_state' = {}
       /\ "generate" \in Range(sent') => "client" \in DOMAIN session_state
       /\ cleared => "generate" \notin Range(sent')]_vars

\* after a clear, a save whose connection test failed
C9_Witness ==
    /\ cleared
    /\ action = "save"
    /\ verify \in {"falsy", "error"}
    /\ "client" \notin DOMAIN session_state

\* C10: whenever the session holds a client, the client was built from the
\* credential the session stores.
C10_ClientMatchesKey ==
    "client" \in DOMAIN session_state =>
       /\ "openai_api_key" \in DOMAIN session_state
       /\ session_state["client"].api_key = session_state["openai_api_key"]

====
